---------------------------- MODULE Spec2Model ----------------------------
(***************************************************************************)
(* FODMAP menu converter: the analyze-menu edge function (serve handler)   *)
(* and the App component's handleImageUpload / resetApp.                   *)
(*                                                                         *)
(* Text is a sequence of symbols.  A symbol is a one-character string for  *)
(* every character the code looks at (brackets, braces, quote, backslash,  *)
(* comma, colon, white space, digits, the letters of the level words) or   *)
(* a longer string standing for a run of ordinary characters that no       *)
(* operation of the code looks into (a key such as name, a piece of prose, *)
(* a fixed message).  A JavaScript value is a record: its type t and, by   *)
(* type, its boolean b, number n, characters s, elements a or members m.   *)
(***************************************************************************)
EXTENDS Integers, Sequences, FiniteSets, TLC

VARIABLES state, uploadedImage, progress, menuItems, error, pc, inFlight, response

vars == <<state, uploadedImage, progress, menuItems, error, pc, inFlight, response>>

---------------------------------------------------------------------------
(* JavaScript / JSON values *)

JNull == [t |-> "null", b |-> FALSE, n |-> 0, s |-> <<>>, a |-> <<>>, m |-> <<>>]

JUndef == [t |-> "undef", b |-> FALSE, n |-> 0, s |-> <<>>, a |-> <<>>, m |-> <<>>]

JBool(b) == [JNull EXCEPT !.t = "bool", !.b = b]

JNum(n) == [JNull EXCEPT !.t = "num", !.n = n]

JStr(cs) == [JNull EXCEPT !.t = "str", !.s = cs]

JArr(es) == [JNull EXCEPT !.t = "arr", !.a = es]

JObj(ms) == [JNull EXCEPT !.t = "obj", !.m = ms]

Member(key, val) == [k |-> <<key>>, val |-> val]

\* obj[key]: property access on a parsed JSON value; absent, or a value
\* that has no such own property (string, number, boolean, array), is undefined.
Get(o, key) ==
  IF o.t # "obj" THEN JUndef
  ELSE LET hits == {i \in 1..Len(o.m) : o.m[i].k = key}
       IN IF hits = {} THEN JUndef
          ELSE o.m[CHOOSE i \in hits : \A j \in hits : j <= i].val

\* ToBoolean
Truthy(x) ==
  CASE x.t = "null" -> FALSE
    [] x.t = "undef" -> FALSE
    [] x.t = "bool" -> x.b
    [] x.t = "num" -> x.n # 0
    [] x.t = "str" -> x.s # <<>>
    [] OTHER -> TRUE

---------------------------------------------------------------------------
(* JSON.stringify *)

Digit == [d \in 0..9 |-> CASE d = 0 -> "0" [] d = 1 -> "1" [] d = 2 -> "2"
                           [] d = 3 -> "3" [] d = 4 -> "4" [] d = 5 -> "5"
                           [] d = 6 -> "6" [] d = 7 -> "7" [] d = 8 -> "8"
                           [] OTHER -> "9"]

RECURSIVE Digits(_)
Digits(n) == IF n < 10 THEN <<Digit[n]>> ELSE Append(Digits(n \div 10), Digit[n % 10])

\* the concatenation of pieces[lo], ..., pieces[hi]
RECURSIVE Concat(_, _, _)
Concat(pieces, lo, hi) ==
  IF lo > hi THEN <<>>
  ELSE IF lo = hi THEN pieces[lo]
  ELSE Concat(pieces, lo, (lo + hi) \div 2) \o Concat(pieces, (lo + hi) \div 2 + 1, hi)

EscapeChar(c) ==
  CASE c = "\"" -> <<"\\", "\"">>
    [] c = "\\" -> <<"\\", "\\">>
    [] c = "\n" -> <<"\\", "n">>
    [] OTHER -> <<c>>

Escape(cs) == Concat([i \in 1..Len(cs) |-> EscapeChar(cs[i])], 1, Len(cs))

Quote(cs) == <<"\"">> \o Escape(cs) \o <<"\"">>

RECURSIVE Stringify(_)
RECURSIVE StringifyElems(_)
RECURSIVE StringifyMembers(_)
StringifyElems(es) ==
  IF es = <<>> THEN <<>>
  ELSE Stringify(Head(es))
         \o (IF Len(es) > 1 THEN <<",">> \o StringifyElems(Tail(es)) ELSE <<>>)

StringifyMembers(ms) ==
  IF ms = <<>> THEN <<>>
  ELSE Quote(Head(ms).k) \o <<":">> \o Stringify(Head(ms).val)
         \o (IF Len(ms) > 1 THEN <<",">> \o StringifyMembers(Tail(ms)) ELSE <<>>)

Stringify(x) ==
  CASE x.t = "null" -> <<"null">>
    [] x.t = "bool" -> IF x.b THEN <<"true">> ELSE <<"false">>
    [] x.t = "num" -> Digits(x.n)
    [] x.t = "str" -> Quote(x.s)
    [] x.t = "arr" -> <<"[">> \o StringifyElems(x.a) \o <<"]">>
    [] OTHER -> <<"{">> \o StringifyMembers(x.m) \o <<"}">>

---------------------------------------------------------------------------
(* JSON.parse.  Numbers are the non-negative integers: no text of the     *)
(* model holds a sign, a fraction or an exponent.                          *)

IsWs(c) == c \in {" ", "\n"}

IsDigit(c) == c \in {"0", "1", "2", "3", "4", "5", "6", "7", "8", "9"}

DigitVal(c) == CHOOSE d \in 0..9 : Digit[d] = c

RECURSIVE SkipWs(_, _)
SkipWs(s, i) == IF i <= Len(s) /\ IsWs(s[i]) THEN SkipWs(s, i + 1) ELSE i

ParseFail == [ok |-> FALSE, val |-> JNull, i |-> 0]

ParseOk(val, i) == [ok |-> TRUE, val |-> val, i |-> i]

\* the number of backslashes that end at j - 1, counted back no further than i
RECURSIVE BackslashesBefore(_, _, _)
BackslashesBefore(s, j, i) ==
  IF j - 1 >= i /\ s[j - 1] = "\\" THEN 1 + BackslashesBefore(s, j - 1, i) ELSE 0

Escaped(s, j, i) == BackslashesBefore(s, j, i) % 2 = 1

\* the first unescaped quote of lo..hi in the literal that starts at i, or 0
RECURSIVE ClosingQuote(_, _, _, _)
ClosingQuote(s, i, lo, hi) ==
  IF lo > hi THEN 0
  ELSE IF lo = hi THEN (IF s[lo] = "\"" /\ ~Escaped(s, lo, i) THEN lo ELSE 0)
  ELSE LET left == ClosingQuote(s, i, lo, (lo + hi) \div 2)
       IN IF left # 0 THEN left ELSE ClosingQuote(s, i, (lo + hi) \div 2 + 1, hi)

\* whether JSON forbids the character at j of the literal that starts at i:
\* an escape other than \" \\ \n, or a line break that is not escaped
Forbidden(s, j, i) ==
  IF Escaped(s, j, i) THEN s[j] \notin {"\"", "\\", "n"} ELSE s[j] = "\n"

\* what the character at j of the literal that starts at i adds to the
\* string: nothing for the backslash that opens an escape
Unescaped(s, j, i) ==
  IF Escaped(s, j, i)
  THEN (IF s[j] = "n" THEN <<"\n">> ELSE <<s[j]>>)
  ELSE (IF s[j] = "\\" THEN <<>> ELSE <<s[j]>>)

\* the literal from i to its closing quote at q (0: there is none)
StringUpTo(s, i, q) ==
  IF q = 0 \/ \E j \in i..(q - 1) : Forbidden(s, j, i)
  THEN ParseFail
  ELSE ParseOk(JStr(Concat([j \in i..(q - 1) |-> Unescaped(s, j, i)], i, q - 1)), q + 1)

\* the string literal whose opening quote is at i - 1: val is the JStr of
\* its unescaped characters, i the index after its closing quote
ParseString(s, i) == StringUpTo(s, i, ClosingQuote(s, i, i, Len(s)))

RECURSIVE ParseNumber(_, _, _)
ParseNumber(s, i, n) ==
  IF i <= Len(s) /\ IsDigit(s[i])
  THEN ParseNumber(s, i + 1, 10 * n + DigitVal(s[i]))
  ELSE ParseOk(JNum(n), i)

\* a member of the same key replaces the earlier one, in its place
PutMember(ms, m) ==
  IF \E i \in 1..Len(ms) : ms[i].k = m.k
  THEN [i \in 1..Len(ms) |-> IF ms[i].k = m.k THEN m ELSE ms[i]]
  ELSE Append(ms, m)

\* value: a value at i, after white space; elements: value (, value)* ];
\* members: string : value (, string : value)* }
RECURSIVE ParseValue(_, _)
RECURSIVE ParseElems(_, _, _)
RECURSIVE ParseMembers(_, _, _)
ElemEnd(s, k, acc) ==
  IF k > Len(s) THEN ParseFail
  ELSE CASE s[k] = "," -> ParseElems(s, k + 1, acc)
         [] s[k] = "]" -> ParseOk(JArr(acc), k + 1)
         [] OTHER -> ParseFail

ElemParsed(s, r, acc) ==
  IF ~r.ok THEN ParseFail ELSE ElemEnd(s, SkipWs(s, r.i), Append(acc, r.val))

ParseElems(s, i, acc) == ElemParsed(s, ParseValue(s, i), acc)

MemberEnd(s, k, acc) ==
  IF k > Len(s) THEN ParseFail
  ELSE CASE s[k] = "," -> ParseMembers(s, SkipWs(s, k + 1), acc)
         [] s[k] = "}" -> ParseOk(JObj(acc), k + 1)
         [] OTHER -> ParseFail

MemberParsed(s, r, key, acc) ==
  IF ~r.ok THEN ParseFail
  ELSE MemberEnd(s, SkipWs(s, r.i), PutMember(acc, [k |-> key, val |-> r.val]))

MemberColon(s, c, key, acc) ==
  IF c > Len(s) \/ s[c] # ":" THEN ParseFail
  ELSE MemberParsed(s, ParseValue(s, c + 1), key, acc)

MemberKey(s, key, acc) ==
  IF ~key.ok THEN ParseFail ELSE MemberColon(s, SkipWs(s, key.i), key.val.s, acc)

ParseMembers(s, j, acc) ==
  IF j > Len(s) \/ s[j] # "\"" THEN ParseFail
  ELSE MemberKey(s, ParseString(s, j + 1), acc)

ParseArray(s, k) ==
  IF k <= Len(s) /\ s[k] = "]" THEN ParseOk(JArr(<<>>), k + 1)
  ELSE ParseElems(s, k, <<>>)

ParseObject(s, k) ==
  IF k <= Len(s) /\ s[k] = "}" THEN ParseOk(JObj(<<>>), k + 1)
  ELSE ParseMembers(s, k, <<>>)

ParseValueAt(s, j) ==
  IF j > Len(s) THEN ParseFail
  ELSE CASE s[j] = "[" -> ParseArray(s, SkipWs(s, j + 1))
         [] s[j] = "{" -> ParseObject(s, SkipWs(s, j + 1))
         [] s[j] = "\"" -> ParseString(s, j + 1)
         [] s[j] = "0" ->
              IF j + 1 <= Len(s) /\ IsDigit(s[j + 1]) THEN ParseFail
              ELSE ParseOk(JNum(0), j + 1)
         [] IsDigit(s[j]) -> ParseNumber(s, j, 0)
         [] s[j] = "null" -> ParseOk(JNull, j + 1)
         [] s[j] = "true" -> ParseOk(JBool(TRUE), j + 1)
         [] s[j] = "false" -> ParseOk(JBool(FALSE), j + 1)
         [] OTHER -> ParseFail

ParseValue(s, i) == ParseValueAt(s, SkipWs(s, i))

\* nothing but white space may follow the value
WholeText(s, r) == IF r.ok /\ SkipWs(s, r.i) > Len(s) THEN r ELSE ParseFail

\* JSON.parse(s): ok = FALSE stands for the SyntaxError it throws
JSONParse(s) == WholeText(s, ParseValue(s, 1))

---------------------------------------------------------------------------
(* aiResponse.match(/\s*(\[.*?\]|\{.*?\})\s*/s)                              *)

\* the first index of lo..hi holding c, or 0
RECURSIVE IndexOf(_, _, _, _)
IndexOf(s, c, lo, hi) ==
  IF lo > hi THEN 0
  ELSE IF lo = hi THEN (IF s[lo] = c THEN lo ELSE 0)
  ELSE LET left == IndexOf(s, c, lo, (lo + hi) \div 2)
       IN IF left # 0 THEN left ELSE IndexOf(s, c, (lo + hi) \div 2 + 1, hi)

Closer(c) == IF c = "[" THEN "]" ELSE "}"

\* whether \[.*?\] or \{.*?\} matches at i: an opener that its closer follows
\* somewhere (with the s flag . matches a newline too)
GroupMatchesAt(s, i) ==
  s[i] \in {"[", "{"} /\ IndexOf(s, Closer(s[i]), i + 1, Len(s)) # 0

\* the first index of lo..hi where the group matches, or 0
RECURSIVE FirstGroupMatch(_, _, _)
FirstGroupMatch(s, lo, hi) ==
  IF lo > hi THEN 0
  ELSE IF lo = hi THEN (IF GroupMatchesAt(s, lo) THEN lo ELSE 0)
  ELSE LET left == FirstGroupMatch(s, lo, (lo + hi) \div 2)
       IN IF left # 0 THEN left ELSE FirstGroupMatch(s, (lo + hi) \div 2 + 1, hi)

\* the group's text when it matches at start (0: it matches nowhere)
GroupAt(s, start) ==
  IF start = 0 THEN <<>>
  ELSE SubSeq(s, start, IndexOf(s, Closer(s[start]), start + 1, Len(s)))

\* Capture group 1 of the leftmost match: from the first opener at which the
\* group matches to the nearest closer after it (.*? is lazy); the \s* on
\* either side only move the ends of the whole match.  <<>> when the regular
\* expression matches nowhere (match returns null).
MatchFrom(s, i) == GroupAt(s, FirstGroupMatch(s, i, Len(s)))

jsonMatch(aiResponse) == MatchFrom(aiResponse, 1)

---------------------------------------------------------------------------
(* The analyze-menu edge function *)

Str(msg) == JStr(<<msg>>)

\* what a return statement of the handler hands to new Response: the status,
\* the value it gives JSON.stringify, and kind, the name of the outcome
Reply(status, value, kind) == [status |-> status, value |-> value, kind |-> kind]

ErrorBody(msg) == JObj(<<Member("error", msg)>>)

ErrorBodyDetails(msg, details) ==
  JObj(<<Member("error", msg), Member("details", details)>>)

\* ServeParsed with an empty list taken for a failure to parse
ServeParsedRejectEmpty(aiResponse, parsed) ==
  IF parsed.ok /\ parsed.val # JArr(<<>>)
  THEN Reply(200, parsed.val, "Success")
  ELSE Reply(500, ErrorBodyDetails(Str("Failed to parse AI response JSON"), aiResponse),
             "MalformedJson")

\* ServeParsed with the message of the no-match branch
ServeParsedSameMessage(aiResponse, parsed) ==
  IF parsed.ok
  THEN Reply(200, parsed.val, "Success")
  ELSE Reply(500, ErrorBodyDetails(Str("No JSON found in AI response"), aiResponse),
             "MalformedJson")

\* lines 65-74: the matched text parsed
ServeParsed(aiResponse, parsed) ==
  IF parsed.ok
  THEN Reply(200, parsed.val, "Success")
  ELSE Reply(500, ErrorBodyDetails(Str("Failed to parse AI response JSON"), aiResponse),
             "MalformedJson")

\* ServeMatched without its else branch: menuItems stays []
ServeMatchedNoElse(aiResponse, m) ==
  IF m # <<>>
  THEN ServeParsed(aiResponse, JSONParse(m))
  ELSE Reply(200, JArr(<<>>), "Success")

\* lines 64-82: jsonMatch && jsonMatch[1], m being jsonMatch[1]
ServeMatched(aiResponse, m) ==
  IF m # <<>>
  THEN ServeParsed(aiResponse, JSONParse(m))
  ELSE Reply(500, ErrorBodyDetails(Str("No JSON found in AI response"), aiResponse),
             "NoJsonFound")

\* lines 51-88: aiResponse is response.choices[0]?.message?.content
ServeExtract(aiResponse) ==
  IF ~Truthy(aiResponse)
  THEN Reply(500, ErrorBody(Str("Failed to get response from AI")), "EmptyCompletion")
  ELSE ServeMatched(aiResponse, jsonMatch(aiResponse.s))

\* lines 90-95, catch (error): the thrown error's message
ServeCatch(msg) == Reply(500, ErrorBody(JStr(msg)), "TransportFailure")

\* ServeImageUrl rejecting an absent imageUrl only
ServeImageUrlAcceptsEmpty(imageUrl, ai) ==
  IF imageUrl.t \in {"undef", "null"}
  THEN Reply(400, ErrorBody(Str("imageUrl is required")), "InvalidRequest")
  ELSE IF ai.throws THEN ServeCatch(ai.msg)
  ELSE ServeExtract(ai.content)

\* lines 22-49: ai is what openai.chat.completions.create does when called: it
\* throws (ai.msg), or returns a completion whose first choice's content is
\* ai.content
ServeImageUrl(imageUrl, ai) ==
  IF ~Truthy(imageUrl)
  THEN Reply(400, ErrorBody(Str("imageUrl is required")), "InvalidRequest")
  ELSE IF ai.throws THEN ServeCatch(ai.msg)
  ELSE ServeExtract(ai.content)

\* line 20: const { imageUrl } = await req.json(), json being the body parsed
ServeBody(json, ai) ==
  IF ~json.ok THEN ServeCatch(<<"Unexpected end of JSON input">>)
  ELSE IF json.val.t = "null"
       THEN ServeCatch(<<"Cannot destructure property 'imageUrl' of null">>)
  ELSE ServeImageUrl(Get(json.val, <<"imageUrl">>), ai)

Handle(req, ai) ==
  IF req.method = "OPTIONS"
  THEN Reply(200, Str("ok"), "Preflight")
  ELSE ServeBody(JSONParse(req.body), ai)

\* new Response(...): the body is 'ok' for the preflight, JSON.stringify(value)
\* for every other reply
Respond(reply) ==
  [status |-> reply.status,
   body |-> IF reply.kind = "Preflight" THEN reply.value.s ELSE Stringify(reply.value),
   kind |-> reply.kind]

\* One request through the handler.  req = [method, body].
Serve(req, ai) == Respond(Handle(req, ai))

---------------------------------------------------------------------------
(* handleImageUpload: the validation of the function's result *)

low == <<"l", "o", "w">>

moderate == <<"m", "o", "d", "e", "r", "a", "t", "e">>

high == <<"h", "i", "g", "h">>

unknown == <<"u", "n", "k", "n", "o", "w", "n">>

UpperCase == <<"A", "B", "C", "D", "E", "F", "G", "H", "I", "J", "K", "L", "M",
               "N", "O", "P", "Q", "R", "S", "T", "U", "V", "W", "X", "Y", "Z">>

LowerCase == <<"a", "b", "c", "d", "e", "f", "g", "h", "i", "j", "k", "l", "m",
               "n", "o", "p", "q", "r", "s", "t", "u", "v", "w", "x", "y", "z">>

LowerChar(c) ==
  IF \E i \in 1..26 : UpperCase[i] = c
  THEN LowerCase[CHOOSE i \in 1..26 : UpperCase[i] = c]
  ELSE c

\* String.prototype.toLowerCase
toLowerCase(cs) == [i \in 1..Len(cs) |-> LowerChar(cs[i])]

Thrown(msg) == [ok |-> FALSE, val |-> JNull, msg |-> msg]

Returned(val) == [ok |-> TRUE, val |-> val, msg |-> <<>>]

\* item.fodmapLevel && [...].includes(item.fodmapLevel.toLowerCase())
\*   ? item.fodmapLevel.toLowerCase() : 'unknown'
fodmapLevelOf(item) ==
  LET f == Get(item, <<"fodmapLevel">>)
  IN IF ~Truthy(f) THEN Returned(JStr(unknown))
     ELSE IF f.t # "str"
          THEN Thrown(<<"item.fodmapLevel.toLowerCase is not a function">>)
     ELSE IF toLowerCase(f.s) \in {low, moderate, high}
          THEN Returned(JStr(toLowerCase(f.s)))
          ELSE Returned(JStr(unknown))

OrDefault(x, d) == IF Truthy(x) THEN x ELSE d

ArrayOr(x) == IF x.t = "arr" THEN x ELSE JArr(<<>>)

\* ValidateItem without the Array.isArray checks
ValidateItemRawLists(item) ==
  IF item.t \in {"null", "undef"}
  THEN Thrown(<<"Cannot read properties of null (reading 'name')">>)
  ELSE LET level == fodmapLevelOf(item)
       IN IF ~level.ok THEN level
          ELSE Returned([name |-> OrDefault(Get(item, <<"name">>), Str("Unknown Item")),
                         description |-> OrDefault(Get(item, <<"description">>), JStr(<<>>)),
                         fodmapLevel |-> level.val,
                         concerns |-> Get(item, <<"concerns">>),
                         alternatives |-> Get(item, <<"alternatives">>)])

\* the callback of map (lines 84-92)
ValidateItem(item) ==
  IF item.t \in {"null", "undef"}
  THEN Thrown(<<"Cannot read properties of null (reading 'name')">>)
  ELSE LET level == fodmapLevelOf(item)
       IN IF ~level.ok THEN level
          ELSE Returned([name |-> OrDefault(Get(item, <<"name">>), Str("Unknown Item")),
                         description |-> OrDefault(Get(item, <<"description">>), JStr(<<>>)),
                         fodmapLevel |-> level.val,
                         concerns |-> ArrayOr(Get(item, <<"concerns">>)),
                         alternatives |-> ArrayOr(Get(item, <<"alternatives">>))])

\* map with the elements that are not objects filtered out first
RECURSIVE MapValidateObjects(_, _)
MapValidateObjects(es, acc) ==
  IF es = <<>> THEN Returned(acc)
  ELSE IF Head(es).t # "obj" THEN MapValidateObjects(Tail(es), acc)
  ELSE IF ValidateItem(Head(es)).ok
       THEN MapValidateObjects(Tail(es), Append(acc, ValidateItem(Head(es)).val))
       ELSE ValidateItem(Head(es))

\* Array.prototype.map: the first callback that throws ends it
RECURSIVE MapValidate(_, _)
MapValidated(es, r, acc) ==
  IF r.ok THEN MapValidate(Tail(es), Append(acc, r.val)) ELSE r

MapValidate(es, acc) ==
  IF es = <<>> THEN Returned(acc) ELSE MapValidated(es, ValidateItem(Head(es)), acc)

NotAFunction == Thrown(<<"(analysisResults || []).map is not a function">>)

mapOf(list) == IF list.t # "arr" THEN NotAFunction ELSE MapValidate(list.a, <<>>)

\* (analysisResults || []).map(...)
validatedResults(analysisResults) == mapOf(OrDefault(analysisResults, JArr(<<>>)))

\* String(x) of `detailedError += ...` for the values a JSON text can hold
RECURSIVE StringOf(_)
StringOf(x) ==
  CASE x.t = "str" -> x.s
    [] x.t = "num" -> Digits(x.n)
    [] x.t = "bool" -> IF x.b THEN <<"true">> ELSE <<"false">>
    [] x.t = "null" -> <<"null">>
    [] x.t = "undef" -> <<"undefined">>
    [] x.t = "obj" -> <<"[object Object]">>
    [] OTHER -> IF x.a = <<>> THEN <<>>
                ELSE StringOf(Head(x.a))
                       \o (IF Len(x.a) > 1 THEN <<",">> \o StringOf(JArr(Tail(x.a)))
                           ELSE <<>>)

\* lines 68-79: the message parsed
detailedErrorOf(message, parsedError) ==
  IF ~parsedError.ok THEN message
  ELSE IF Truthy(parsedError.val) /\ Truthy(Get(parsedError.val, <<"error">>))
       THEN StringOf(Get(parsedError.val, <<"error">>))
              \o (IF Truthy(Get(parsedError.val, <<"details">>))
                  THEN <<": ">> \o StringOf(Get(parsedError.val, <<"details">>))
                  ELSE <<>>)
       ELSE <<"Failed to analyze menu.">>

\* lines 65-80: the message of the Error thrown for functionError
detailedError(message) == detailedErrorOf(message, JSONParse(message))

---------------------------------------------------------------------------
(* The inputs: what the vision model answers, what the storage answers *)

MaxItems == 2

HIGH == <<"H", "I", "G", "H">>

LevelInputs ==
  { JUndef, JStr(HIGH), JStr(<<"e", "x", "t", "r", "e", "m", "e">>), JStr(low),
    JStr(<<"M", "o", "d", "e", "r", "a", "t", "e">>), JStr(<<>>), JNum(5), JNum(0),
    JNull, JBool(TRUE), JArr(<<JStr(high)>>) }

ListInputs == { JUndef, JArr(<<Str("Garlic")>>), Str("Garlic"), JNull }

\* an item object; an absent field is left out
DishOf(name, level, concerns) ==
  JObj((IF name = JUndef THEN <<>> ELSE <<Member("name", name)>>)
       \o (IF level = JUndef THEN <<>> ELSE <<Member("fodmapLevel", level)>>)
       \o (IF concerns = JUndef THEN <<>> ELSE <<Member("concerns", concerns)>>))

CaesarSalad ==
  JObj(<<Member("name", Str("Caesar Salad")),
         Member("description", Str("Romaine, parmesan, croutons")),
         Member("fodmapLevel", JStr(moderate)),
         Member("concerns", JArr(<<Str("Garlic")>>)),
         Member("alternatives", JArr(<<Str("No dressing")>>))>>)

ObjectElems ==
  { DishOf(Str("Soup"), l, JUndef) : l \in LevelInputs }
    \cup { DishOf(Str("Soup"), JStr(low), c) : c \in ListInputs }
    \cup { CaesarSalad, JObj(<<>>), DishOf(JNum(7), JStr(high), JUndef),
           DishOf(JStr(<<"Mix ", "[", "Spicy", "]">>), JStr(high), JUndef) }

NonObjectElems == { Str("Soup"), JNum(7), JNull, JBool(TRUE), JArr(<<>>) }

MultiElems == { DishOf(Str("Soup"), JStr(HIGH), JUndef), Str("Soup"),
                DishOf(Str("Soup"), JNum(5), JUndef) }

ArrayValues ==
  { JArr(<<>>) }
    \cup { JArr(<<e>>) : e \in ObjectElems \cup NonObjectElems }
    \cup UNION { { JArr(es) : es \in [1..n -> MultiElems] } : n \in 2..MaxItems }

ObjectValues == { CaesarSalad, DishOf(Str("Soup"), JStr(low), JUndef) }

Wraps ==
  { [pre |-> <<>>, suf |-> <<>>],
    [pre |-> <<"Here is the analysis:", "\n">>,
     suf |-> <<"\n", "Let me know if you need more.">>],
    [pre |-> <<"(code fence)json", "\n">>, suf |-> <<"\n", "(code fence)">>] }

TruncatedValues ==
  { JArr(<<DishOf(Str("Soup"), JUndef, JUndef)>>), JArr(<<CaesarSalad>>),
    JArr(<<DishOf(Str("A"), JUndef, JUndef), DishOf(Str("B"), JUndef, JUndef)>>) }

Prose == { <<"I cannot analyze this image.">>, <<"Sorry,", " ", "no menu", "\n">>,
           <<"see", "]", " ", "}">> }

ProviderErrors == { <<"Connection error.">>, <<"401 Incorrect API key provided">> }

\* what openai.chat.completions.create does: it throws msg, or returns a
\* completion whose content is `content`.  form, pre, val, cut, suf record
\* how the content was written: pre, the first cut symbols of the JSON text
\* of val, suf.
Completion(form, pre, val, cut, suf) ==
  [throws |-> FALSE, msg |-> <<>>,
   content |-> JStr(pre \o SubSeq(Stringify(val), 1, cut) \o suf),
   form |-> form, pre |-> pre, val |-> val, cut |-> cut, suf |-> suf]

NoContent(c) ==
  [throws |-> FALSE, msg |-> <<>>, content |-> c,
   form |-> "none", pre |-> <<>>, val |-> JNull, cut |-> 0, suf |-> <<>>]

Throws(msg) ==
  [throws |-> TRUE, msg |-> msg, content |-> JNull,
   form |-> "throws", pre |-> <<>>, val |-> JNull, cut |-> 0, suf |-> <<>>]

AiOutcomes ==
  { Completion("whole", w.pre, x, Len(Stringify(x)), w.suf) :
      w \in Wraps, x \in ArrayValues \cup ObjectValues }
    \cup UNION { { Completion("truncated", <<>>, x, n, <<>>) :
                     n \in 1..(Len(Stringify(x)) - 1) } : x \in TruncatedValues }
    \cup { Completion("prose", t, JNull, 0, <<>>) : t \in Prose }
    \cup { NoContent(c) : c \in {JNull, JUndef, JStr(<<>>)} }
    \cup { Throws(m) : m \in ProviderErrors }

DirectAiOutcomes ==
  { Throws(<<"Connection error.">>),
    Completion("whole", <<>>, JArr(<<>>), 2, <<>>) }

PublicUrls == { <<"https://project.supabase.co/storage/v1/object/public/menu-images/1_menu.png">> }

UploadErrors == { <<"The resource already exists">>, <<>> }

FetchErrors == { <<"Failed to send a request to the Edge Function">>, <<>> }

\* the request functions.invoke sends: { body: { imageUrl } }
InvokeRequest(url) ==
  [method |-> "POST", body |-> Stringify(JObj(<<Member("imageUrl", JStr(url))>>))]

\* requests of other clients of the endpoint
DirectRequests ==
  { [method |-> "OPTIONS", body |-> <<>>],
    [method |-> "POST", body |-> <<>>],
    [method |-> "POST", body |-> <<"null">>],
    [method |-> "POST", body |-> Stringify(JObj(<<>>))],
    [method |-> "POST", body |-> Stringify(JObj(<<Member("imageUrl", JStr(<<>>))>>))],
    [method |-> "POST", body |-> Stringify(JObj(<<Member("imageUrl", Str("https://example.org/m.png"))>>))] }

NoResponse ==
  [to |-> "none", req |-> [method |-> "", body |-> <<>>], ai |-> NoContent(JNull),
   status |-> 0, body |-> <<>>, kind |-> "none"]

Delivered(to, req, ai, r) ==
  [to |-> to, req |-> req, ai |-> ai, status |-> r.status, body |-> r.body, kind |-> r.kind]

\* the response of the handler to req when the vision model does ai
Responded(to, req, ai) == Delivered(to, req, ai, Serve(req, ai))

---------------------------------------------------------------------------
(* The App component *)

Init ==
  /\ state = "idle"
  /\ uploadedImage = JNull
  /\ progress = 0
  /\ menuItems = <<>>
  /\ error = JNull
  /\ pc = "none"
  /\ inFlight = 0
  /\ response = NoResponse

\* pc is where the latest call of handleImageUpload stands: "none" before any
\* call and after resetApp, "upload" and "invoke" at its two awaits, "respond"
\* once the function has answered, "done" when it has returned.  inFlight is
\* the number of calls that have passed line 30 and have not returned.
\* a catch that leaves the preview in place
CatchKeepsPreview(message) ==
  /\ error' = JStr(IF message = <<>> THEN <<"An unexpected error occurred.">> ELSE message)
  /\ state' = "idle"
  /\ pc' = "done"
  /\ inFlight' = inFlight - 1
  /\ UNCHANGED uploadedImage

\* catch (err): lines 98-104
Catch(message) ==
  /\ error' = JStr(IF message = <<>> THEN <<"An unexpected error occurred.">> ELSE message)
  /\ state' = "idle"
  /\ uploadedImage' = JNull
  /\ pc' = "done"
  /\ inFlight' = inFlight - 1

\* a file input that every view renders
InputAlwaysRendered == TRUE

\* the file input and its button are in the view that line 167 renders
InputRendered == state = "idle"

\* the button with onClick={resetApp} is in the view that line 264 renders
ResetRendered == state = "complete"

\* the change event of the file input; the handler up to its first await.
\* The handler itself has no guard but if (!file) return.
HandleImageUpload ==
  /\ InputRendered
  /\ \E file \in {"none", "menu.png"} :
       IF file = "none"
       THEN UNCHANGED vars
       ELSE /\ state' = "uploading"
            /\ error' = JNull
            /\ progress' = 0
            /\ pc' = "upload"
            /\ inFlight' = inFlight + 1
            /\ response' = NoResponse
            /\ UNCHANGED <<uploadedImage, menuItems>>

\* storage.upload settles: lines 39-58, up to functions.invoke
UploadSettled ==
  /\ pc = "upload"
  /\ \/ \E m \in UploadErrors :
          /\ Catch(m)
          /\ UNCHANGED <<progress, menuItems, response>>
     \/ \E url \in PublicUrls :
          /\ uploadedImage' = JStr(url)
          /\ state' = "analyzing"
          /\ progress' = 50
          /\ pc' = "invoke"
          /\ UNCHANGED <<menuItems, error, inFlight, response>>

\* the edge function serves the App's request
ServeInvoke ==
  /\ pc = "invoke"
  /\ \E ai \in AiOutcomes :
       response' = Responded("app", InvokeRequest(uploadedImage.s), ai)
  /\ pc' = "respond"
  /\ UNCHANGED <<state, uploadedImage, progress, menuItems, error, inFlight>>

\* the request never reaches the function: functionError with a plain message
InvokeFetchFailed ==
  /\ pc = "invoke"
  /\ \E m \in FetchErrors : Catch(detailedError(m))
  /\ UNCHANGED <<progress, menuItems, response>>

\* lines 84-96 and the catch: results is validatedResults, or what it threw
Validated(results) ==
  IF results.ok
  THEN /\ menuItems' = results.val
       /\ progress' = 100
       /\ state' = "complete"
       /\ pc' = "done"
       /\ inFlight' = inFlight - 1
       /\ UNCHANGED <<uploadedImage, error, response>>
  ELSE /\ Catch(results.msg)
       /\ UNCHANGED <<progress, menuItems, response>>

\* functions.invoke settles with the function's response: lines 60-96.
\* A 2xx JSON body is parsed into data; any other status gives
\* functionError, whose message is taken to be the body's text.
InvokeSettled ==
  /\ pc = "respond"
  /\ IF response.status = 200
     THEN Validated(validatedResults(JSONParse(response.body).val))
     ELSE /\ Catch(detailedError(response.body))
          /\ UNCHANGED <<progress, menuItems, response>>

\* a reset that keeps the dishes
resetAppKeepsItems ==
  /\ ResetRendered
  /\ state' = "idle"
  /\ uploadedImage' = JNull
  /\ progress' = 0
  /\ error' = JNull
  /\ pc' = "none"
  /\ UNCHANGED <<menuItems, inFlight, response>>

\* the button of the results view
resetApp ==
  /\ ResetRendered
  /\ state' = "idle"
  /\ uploadedImage' = JNull
  /\ progress' = 0
  /\ menuItems' = <<>>
  /\ error' = JNull
  /\ pc' = "none"
  /\ UNCHANGED <<inFlight, response>>

\* the edge function serves a request of another client
ServeDirect ==
  /\ pc \in {"none", "done"}
  /\ response.to # "direct"
  /\ \E req \in DirectRequests, ai \in DirectAiOutcomes :
       response' = Responded("direct", req, ai)
  /\ UNCHANGED <<state, uploadedImage, progress, menuItems, error, pc, inFlight>>

Next ==
  \/ HandleImageUpload
  \/ UploadSettled
  \/ ServeInvoke
  \/ InvokeFetchFailed
  \/ InvokeSettled
  \/ resetApp
  \/ ServeDirect

Spec == Init /\ [][Next]_vars
---------------------------------------------------------------------------
(* What the claims speak of *)

\* the handler has answered a request that asks for an analysis
Answered == response.to # "none" /\ response.req.method = "POST"

\* the body of the answered request, parsed
RequestJson == JSONParse(response.req.body)

\* the request carries a usable imageUrl, so the vision model is called
ValidRequest ==
  /\ Answered
  /\ RequestJson.ok
  /\ Truthy(Get(RequestJson.val, <<"imageUrl">>))

\* the vision model returned a non-empty text, aiResponse
Completed == ValidRequest /\ ~response.ai.throws /\ Truthy(response.ai.content)

aiResponse == response.ai.content.s

\* the parsed body of the handler's response
Body == JSONParse(response.body).val

\* a run of handleImageUpload has returned after the function answered it
RunSettled == pc = "done" /\ response.to = "app"

NoOpener(text) == \A i \in 1..Len(text) : text[i] \notin {"[", "{"}

ObjectCount(es) == Cardinality({i \in 1..Len(es) : es[i].t = "obj"})

Placeholder ==
  [name |-> Str("Unknown Item"), description |-> JStr(<<>>),
   fodmapLevel |-> JStr(unknown), concerns |-> JArr(<<>>), alternatives |-> JArr(<<>>)]

\* C1: a completion prefix + JSON array + suffix, the prefix and the suffix
\* without "[" and "{", is answered with status 200 and exactly that array.
C1_ExtractsArray ==
  (/\ Completed
   /\ response.ai.form = "whole"
   /\ response.ai.val.t = "arr"
   /\ NoOpener(response.ai.pre) /\ NoOpener(response.ai.suf))
  => (response.status = 200 /\ Body = response.ai.val)

\* C2: when the extracted JSON value is a single object, the run ends in
\* state complete with menuItems holding exactly one dish and no error.
C2_SingleObjectOneDish ==
  (RunSettled /\ response.kind = "Success" /\ Body.t = "obj")
  => (state = "complete" /\ Len(menuItems) = 1 /\ error = JNull)

\* C3: a truncated, unterminated JSON payload is answered with the
\* MalformedJson error carrying the whole completion text, never NoJsonFound.
C3_TruncatedIsMalformed ==
  (Completed /\ response.ai.form = "truncated")
  => (/\ response.status = 500
      /\ Get(Body, <<"error">>) = Str("Failed to parse AI response JSON")
      /\ Get(Body, <<"details">>) = JStr(aiResponse))

\* C4: for a result that is an array of objects, whatever their fields hold,
\* the normalization does not fail: the run ends in state complete.
C4_NormalizerNeverFails ==
  (/\ RunSettled /\ response.status = 200
   /\ Body.t = "arr" /\ ObjectCount(Body.a) = Len(Body.a))
  => state = "complete"

\* C5: every element of menuItems has a fodmapLevel among low, moderate,
\* high, unknown, and concerns and alternatives that are arrays.
C5_MenuItemsWellFormed ==
  \A i \in 1..Len(menuItems) :
    /\ menuItems[i].fodmapLevel \in {JStr(low), JStr(moderate), JStr(high), JStr(unknown)}
    /\ menuItems[i].concerns.t = "arr"
    /\ menuItems[i].alternatives.t = "arr"

\* a run completed on an item whose concerns were not an array
C5_Witness ==
  /\ RunSettled /\ state = "complete" /\ Len(menuItems) = 1
  /\ Get(Body.a[1], <<"concerns">>).t = "str"
  /\ menuItems[1].concerns = JArr(<<>>)

\* the level the specification gives an input value
ExpectedLevel(f) ==
  IF f.t = "str" /\ toLowerCase(f.s) \in {low, moderate, high}
  THEN JStr(toLowerCase(f.s))
  ELSE JStr(unknown)

\* C6: each item's fodmapLevel is the lower-cased input when that is low,
\* moderate or high, and unknown for every other input, an absent one too.
C6_LevelNormalized ==
  (/\ RunSettled /\ response.status = 200
   /\ Body.t = "arr" /\ ObjectCount(Body.a) = Len(Body.a))
  => (/\ Len(menuItems) = Len(Body.a)
      /\ \A i \in 1..Len(Body.a) :
           menuItems[i].fodmapLevel = ExpectedLevel(Get(Body.a[i], <<"fodmapLevel">>)))

\* C7 as stated: the elements that are not objects are dropped, so the
\* result is as long as the input has objects.
C7_NonObjectsDropped ==
  (RunSettled /\ response.status = 200 /\ Body.t = "arr" /\ state = "complete")
  => Len(menuItems) = ObjectCount(Body.a)

\* C7 as amended: a completed run keeps one item per element, in order; an
\* element that is not an object gives the placeholder item.
C7_NonObjectsKept ==
  (RunSettled /\ response.status = 200 /\ Body.t = "arr" /\ state = "complete")
  => (/\ Len(menuItems) = Len(Body.a)
      /\ \A i \in 1..Len(Body.a) : Body.a[i].t # "obj" => menuItems[i] = Placeholder)

\* a run completed on an array that mixes a bare string and an object
C7_Witness ==
  /\ RunSettled /\ response.status = 200 /\ state = "complete"
  /\ Body.t = "arr" /\ Len(Body.a) = 2
  /\ Body.a[1].t = "str" /\ Body.a[2].t = "obj"
  /\ Len(menuItems) = 2

\* C8: a non-empty completion without "[" and "{" is answered with the
\* NoJsonFound error, never with a success.
C8_NoBracketNoJsonFound ==
  (Completed /\ NoOpener(aiResponse))
  => (/\ response.status = 500
      /\ response.kind = "NoJsonFound"
      /\ Get(Body, <<"error">>) = Str("No JSON found in AI response"))

\* the function answered a prose completion that holds closers only
C8_Witness ==
  /\ Completed /\ NoOpener(aiResponse)
  /\ \E i \in 1..Len(aiResponse) : aiResponse[i] = "]"
  /\ response.kind = "NoJsonFound"

\* C9: the completion [] is answered with status 200 and an empty array,
\* and the run ends in state complete with no menu item and no error.
C9_EmptyArraySucceeds ==
  (Completed /\ aiResponse = <<"[", "]">>)
  => (/\ response.status = 200
      /\ Body = JArr(<<>>)
      /\ RunSettled => (state = "complete" /\ menuItems = <<>> /\ error = JNull))

\* a run settled on the completion []
C9_Witness ==
  /\ RunSettled /\ Completed /\ aiResponse = <<"[", "]">>
  /\ state = "complete"

\* what a caller can tell from the status and the body alone
Classify(status, body) ==
  IF status = 200 THEN "Success"
  ELSE LET err == Get(body, <<"error">>)
           detailed == Get(body, <<"details">>).t # "undef"
       IN CASE err = Str("imageUrl is required") /\ ~detailed -> "InvalidRequest"
            [] err = Str("Failed to get response from AI") /\ ~detailed -> "EmptyCompletion"
            [] err = Str("No JSON found in AI response") /\ detailed -> "NoJsonFound"
            [] err = Str("Failed to parse AI response JSON") /\ detailed -> "MalformedJson"
            [] OTHER -> "TransportFailure"

RunEnds == pc \in {"upload", "invoke", "respond"} /\ pc' = "done"

\* the call returns on a failure: the upload gave an error, the function
\* could not be reached or answered with an error, or the validation threw
RunFails ==
  /\ RunEnds
  /\ \/ pc \in {"upload", "invoke"}
     \/ response.status # 200
     \/ ~validatedResults(JSONParse(response.body).val).ok

\* C12: a call of handleImageUpload that fails, at whatever step, returns
\* with state idle, the preview cleared and error a non-empty message.
C12_FailureResets ==
  [][RunFails => (/\ state' = "idle"
                  /\ uploadedImage' = JNull
                  /\ error'.t = "str"
                  /\ error'.s # <<>>)]_vars

\* a call has failed in the validation of a result the function answered
\* with status 200, after the preview had been set
C12_Witness ==
  /\ pc = "done" /\ response.to = "app" /\ response.status = 200
  /\ ~validatedResults(JSONParse(response.body).val).ok
  /\ state = "idle" /\ uploadedImage = JNull /\ error.t = "str"

EmptyUrlAnswered ==
  /\ Answered
  /\ RequestJson.ok
  /\ Get(RequestJson.val, <<"imageUrl">>) = JStr(<<>>)

\* C14 as stated: a request whose imageUrl is "" is not rejected early; the
\* vision model is called and the answer is the one its outcome gives.
C14_EmptyUrlAccepted ==
  EmptyUrlAnswered
  => (/\ response.status # 400
      /\ response.kind \in {"Success", "TransportFailure", "EmptyCompletion",
                            "NoJsonFound", "MalformedJson"})

\* C14 as amended: a request whose imageUrl is "" is rejected early with
\* status 400 and the error imageUrl is required, whatever the vision model
\* would have done: the model is not called.
C14_EmptyUrlRejected ==
  EmptyUrlAnswered
  => (/\ response.status = 400
      /\ Body = ErrorBody(Str("imageUrl is required"))
      /\ \A ai \in DirectAiOutcomes : Serve(response.req, ai).body = response.body)

\* a request with imageUrl "" was rejected although the vision model would
\* have returned a completion with a JSON array
C14_Witness ==
  /\ EmptyUrlAnswered
  /\ ~response.ai.throws /\ response.ai.content = JStr(<<"[", "]">>)
  /\ response.status = 400
=============================================================================
